---- MODULE Spec2Model ----
(***************************************************************************)
(* Game of Life simulation engine (CaymanFreeman/GameOfLife).              *)
(*                                                                         *)
(* The model follows src/src/simulation.rs, src/src/simulation_builder.rs, *)
(* src/src/cell.rs and src/src/simulation_window.rs.  A Simulation is a    *)
(* record with the fields of the struct; every method is an operator from  *)
(* a Simulation to an outcome [sim, panic], and every public call is one   *)
(* action.  A seed is a sequence of one-character strings.                 *)
(*                                                                         *)
(* Unsigned arithmetic: u16 values stay far below 2^16 within the bounds.  *)
(* The u128 counter generation_iteration is held as the small signed       *)
(* representative of its value modulo 2^128: -1 stands for 2^128 - 1, the  *)
(* value a build without overflow checks stores when it subtracts 1 from   *)
(* 0.  A build with overflow checks panics there instead.                  *)
(***************************************************************************)
EXTENDS Integers, Sequences, FiniteSets, TLC

(***************************************************************************)
(* Bounds of the model.                                                    *)
(***************************************************************************)
MaxRows == 2
MaxColumns == 2
MaxSeedLen == 4
MaxSaves == 2
MaxIterations == 2
MaxCalls == 3
MaxBadSeedLen == 1
MaxGridRows == 3
MaxGridColumns == 3
MaxGridCalls == 1
MaxQueryCalls == 3
MaxPeriod == 3
MaxStringCalls == 2
MaxCloneCalls == 3
MaxSpaceshipCalls == 1
MaxContinuousCalls == 1
MaxContinuousRows == 1
MaxContinuousColumns == 3
MaxContinuousIteration == 3
MaxFrameCalls == 2
WideRows == 256
WideColumns == 256
MaxWidthCalls == 1
MaxResetCalls == 2
MaxBuildCalls == 1

(***************************************************************************)
(* cell.rs                                                                 *)
(***************************************************************************)
ALIVE == "ALIVE"
DEAD == "DEAD"
ALIVE_CHAR == "*"
DEAD_CHAR == "-"

Cell_new(state, row, column) == [state |-> state, row |-> row, column |-> column]

is_alive(cell) == cell.state = ALIVE

as_char(cell) == IF cell.state = ALIVE THEN ALIVE_CHAR ELSE DEAD_CHAR

(***************************************************************************)
(* simulation.rs: surface types                                            *)
(***************************************************************************)
Ball == "Ball"
HorizontalLoop == "HorizontalLoop"
VerticalLoop == "VerticalLoop"
Rectangle == "Rectangle"
SurfaceType == {Ball, HorizontalLoop, VerticalLoop, Rectangle}

NoPanic == "none"

(***************************************************************************)
(* Simulation::get_cell                                                    *)
(***************************************************************************)
get_cell(self, row, column) ==
    LET cell == Cell_new(ALIVE, row, column)
    IN  IF cell \notin self.generation
        THEN Cell_new(DEAD, row, column)
        ELSE cell

(***************************************************************************)
(* Simulation::get_alive_neighbors: the eight closures, one per neighbour. *)
(* It is only called for cells with row < rows and column < columns, so    *)
(* rows - 1 and columns - 1 do not underflow.                              *)
(***************************************************************************)
\* The vertical wrap given to HorizontalLoop instead of VerticalLoop.
wrapping_vertically_swapped(self) == self.surface_type \in {Ball, HorizontalLoop}

wrapping_vertically(self) == self.surface_type \in {Ball, VerticalLoop}
wrapping_horizontally(self) == self.surface_type \in {Ball, HorizontalLoop}
bounded_vertically(self) == self.surface_type \in {HorizontalLoop, Rectangle}
bounded_horizontally(self) == self.surface_type \in {VerticalLoop, Rectangle}

on_top_edge(self, cell) == cell.row = 0
on_bottom_edge(self, cell) == cell.row = self.rows - 1
on_left_edge(self, cell) == cell.column = 0
on_right_edge(self, cell) == cell.column = self.columns - 1

\* row_above without the "- 1" of the wrapped row.
row_above_unwrapped(self, cell) ==
    IF on_top_edge(self, cell) /\ wrapping_vertically(self)
    THEN self.rows
    ELSE cell.row - 1

row_above(self, cell) ==
    IF on_top_edge(self, cell) /\ wrapping_vertically(self)
    THEN self.rows - 1
    ELSE cell.row - 1

row_below(self, cell) ==
    IF on_bottom_edge(self, cell) /\ wrapping_vertically(self)
    THEN 0
    ELSE cell.row + 1

column_left(self, cell) ==
    IF on_left_edge(self, cell) /\ wrapping_horizontally(self)
    THEN self.columns - 1
    ELSE cell.column - 1

column_right(self, cell) ==
    IF on_right_edge(self, cell) /\ wrapping_horizontally(self)
    THEN 0
    ELSE cell.column + 1

top_left_is_alive(self, cell) ==
    IF on_top_edge(self, cell) /\ bounded_vertically(self) THEN FALSE
    ELSE IF on_left_edge(self, cell) /\ bounded_horizontally(self) THEN FALSE
    ELSE is_alive(get_cell(self, row_above(self, cell), column_left(self, cell)))

top_center_is_alive(self, cell) ==
    IF on_top_edge(self, cell) /\ bounded_vertically(self) THEN FALSE
    ELSE is_alive(get_cell(self, row_above(self, cell), cell.column))

top_right_is_alive(self, cell) ==
    IF on_top_edge(self, cell) /\ bounded_vertically(self) THEN FALSE
    ELSE IF on_right_edge(self, cell) /\ bounded_horizontally(self) THEN FALSE
    ELSE is_alive(get_cell(self, row_above(self, cell), column_right(self, cell)))

middle_left_is_alive(self, cell) ==
    IF on_left_edge(self, cell) /\ bounded_horizontally(self) THEN FALSE
    ELSE is_alive(get_cell(self, cell.row, column_left(self, cell)))

middle_right_is_alive(self, cell) ==
    IF on_right_edge(self, cell) /\ bounded_horizontally(self) THEN FALSE
    ELSE is_alive(get_cell(self, cell.row, column_right(self, cell)))

bottom_left_is_alive(self, cell) ==
    IF on_left_edge(self, cell) /\ bounded_horizontally(self) THEN FALSE
    ELSE IF on_bottom_edge(self, cell) /\ bounded_vertically(self) THEN FALSE
    ELSE is_alive(get_cell(self, row_below(self, cell), column_left(self, cell)))

bottom_center_is_alive(self, cell) ==
    IF on_bottom_edge(self, cell) /\ bounded_vertically(self) THEN FALSE
    ELSE is_alive(get_cell(self, row_below(self, cell), cell.column))

bottom_right_is_alive(self, cell) ==
    IF on_bottom_edge(self, cell) /\ bounded_vertically(self) THEN FALSE
    ELSE IF on_right_edge(self, cell) /\ bounded_horizontally(self) THEN FALSE
    ELSE is_alive(get_cell(self, row_below(self, cell), column_right(self, cell)))

Count(b) == IF b THEN 1 ELSE 0

get_alive_neighbors(self, cell) ==
      Count(top_left_is_alive(self, cell))
    + Count(top_center_is_alive(self, cell))
    + Count(top_right_is_alive(self, cell))
    + Count(middle_left_is_alive(self, cell))
    + Count(middle_right_is_alive(self, cell))
    + Count(bottom_left_is_alive(self, cell))
    + Count(bottom_center_is_alive(self, cell))
    + Count(bottom_right_is_alive(self, cell))

(***************************************************************************)
(* Outcomes.  A method either returns with the simulation it leaves        *)
(* behind, or panics; a panic ends the program.                            *)
(***************************************************************************)
Returned(self) == [sim |-> self, panic |-> NoPanic]
Panicked(self, message) == [sim |-> self, panic |-> message]

UnwrapNone == "called Option::unwrap() on a None value"
UnwrapErr == "called Result::unwrap() on an Err value"
RemoveOutOfBounds == "removal index (is 0) should be < len (is 0)"
SubtractOverflow == "attempt to subtract with overflow"
DivideByZero == "attempt to divide by zero"
MultiplyOverflow == "attempt to multiply with overflow"
IndexOutOfBounds == "index out of bounds"

(***************************************************************************)
(* simulation_window.rs: draw_generation.  draw_alive_cells unwraps        *)
(* window_data first; with a window the frame shows the alive cells of the *)
(* current generation.  Pixel arithmetic is left out.                      *)
(***************************************************************************)
\* Option<T>: None, or Some(value); Unwrap gives the value of a Some.
None == << >>
Some(value) == <<value>>
Unwrap(option) == option[1]

draw_generation(self) ==
    IF self.window_data = None
    THEN Panicked(self, UnwrapNone)
    ELSE Returned([self EXCEPT !.window_data = Some([frame |-> self.generation])])

(***************************************************************************)
(* Simulation::save_generation                                             *)
(***************************************************************************)
\* save_generation without the removal of the oldest entry.
save_generation_unbounded(self) ==
    Returned([self EXCEPT !.save_history = Append(self.save_history, self.generation)])

\* save_generation leaving the history as it is.
save_generation_skipped(self) == Returned(self)

\* save_generation evicting the newest entry of a full history.
save_generation_evicting_newest(self) ==
    IF Len(self.save_history) = self.maximum_saves
    THEN IF self.save_history = << >>
         THEN Panicked(self, RemoveOutOfBounds)
         ELSE Returned([self EXCEPT !.save_history =
                            Append(SubSeq(self.save_history, 1,
                                          Len(self.save_history) - 1),
                                   self.generation)])
    ELSE Returned([self EXCEPT !.save_history =
                            Append(self.save_history, self.generation)])

save_generation(self) ==
    IF Len(self.save_history) = self.maximum_saves
    THEN IF self.save_history = << >>
         THEN Panicked(self, RemoveOutOfBounds)
         ELSE Returned([self EXCEPT !.save_history =
                            Append(Tail(self.save_history), self.generation)])
    ELSE Returned([self EXCEPT !.save_history =
                            Append(self.save_history, self.generation)])

(***************************************************************************)
(* Simulation::simulate_generations                                        *)
(***************************************************************************)
GridCells(self) ==
    {Cell_new(ALIVE, row, column) : row \in 0..(self.rows - 1),
                                    column \in 0..(self.columns - 1)}

\* next_generation updating self.generation in place, cell by cell in
\* row-major order, so that later cells count neighbours already updated.
RECURSIVE in_place_pass(_, _)
in_place_pass(self, k) ==
    IF k >= self.rows * self.columns
    THEN self.generation
    ELSE LET cell == Cell_new(ALIVE, k \div self.columns, k % self.columns)
             alive_neighbors == get_alive_neighbors(self, cell)
             updated ==
                 IF cell \in self.generation
                 THEN IF alive_neighbors < 2 \/ alive_neighbors > 3
                      THEN self.generation \ {cell}
                      ELSE self.generation
                 ELSE IF alive_neighbors = 3
                      THEN self.generation \cup {cell}
                      ELSE self.generation
         IN  in_place_pass([self EXCEPT !.generation = updated], k + 1)

next_generation_in_place(self) == in_place_pass(self, 0)

\* One pass of the body of the `for _ in 0..iterations` loop: new_generation
\* starts as a clone, cells are removed from or inserted into it while every
\* read goes to self.generation.
next_generation(self) ==
    LET dying == {cell \in GridCells(self) :
                     /\ cell \in self.generation
                     /\ \/ get_alive_neighbors(self, cell) < 2
                        \/ get_alive_neighbors(self, cell) > 3}
        born  == {cell \in GridCells(self) :
                     /\ cell \notin self.generation
                     /\ get_alive_neighbors(self, cell) = 3}
    IN  (self.generation \ dying) \cup born

\* simulate_loop saving the generation before every iteration, as the doc
\* comment of simulate_generations describes it.
RECURSIVE simulate_loop_saving(_, _)
simulate_loop_saving(self, iterations) ==
    IF iterations = 0
    THEN self
    ELSE LET stepped == [self EXCEPT !.generation = next_generation(self),
                                     !.generation_iteration = @ + 1]
         IN  simulate_loop_saving(
                 IF iterations > 1 THEN save_generation(stepped).sim ELSE stepped,
                 iterations - 1)

\* simulate_loop counting its iterations from 1: one pass too few.
RECURSIVE simulate_loop_from_one(_, _)
simulate_loop_from_one(self, iterations) ==
    IF iterations <= 1
    THEN self
    ELSE simulate_loop_from_one(
             [self EXCEPT !.generation = next_generation(self),
                          !.generation_iteration = @ + 1],
             iterations - 1)

\* simulate_loop making one pass whatever the number of iterations.
simulate_loop_once(self, iterations) ==
    IF iterations = 0
    THEN self
    ELSE [self EXCEPT !.generation = next_generation(self),
                      !.generation_iteration = @ + 1]

RECURSIVE simulate_loop(_, _)
simulate_loop(self, iterations) ==
    IF iterations = 0
    THEN self
    ELSE simulate_loop([self EXCEPT !.generation = next_generation(self),
                                    !.generation_iteration = @ + 1],
                       iterations - 1)

\* simulate_generations without the early return on 0 iterations.
simulate_generations_always_saving(self, iterations) ==
    LET saved == save_generation(self)
    IN  IF saved.panic # NoPanic
        THEN saved
        ELSE LET simulated == simulate_loop(saved.sim, iterations)
             IN  IF simulated.display
                 THEN draw_generation(simulated)
                 ELSE Returned(simulated)

simulate_generations(self, iterations) ==
    IF iterations = 0
    THEN Returned(self)
    ELSE LET saved == save_generation(self)
         IN  IF saved.panic # NoPanic
             THEN saved
             ELSE LET simulated == simulate_loop(saved.sim, iterations)
                  IN  IF simulated.display
                      THEN draw_generation(simulated)
                      ELSE Returned(simulated)

(***************************************************************************)
(* impl Display for Simulation: the first line written, "SEED" at          *)
(* iteration 0 and the iteration otherwise.                                *)
(***************************************************************************)
display_header(self) ==
    IF self.generation_iteration = 0
    THEN "SEED"
    ELSE <<self.generation_iteration>>

(***************************************************************************)
(* Simulation::rollback_generations.  overflow_checks is the build         *)
(* profile: with it, generation_iteration -= 1 panics at 0; without it the *)
(* counter wraps to 2^128 - 1 (held as -1).                                *)
(***************************************************************************)
RECURSIVE rollback_loop(_, _, _)
rollback_loop(self, iterations, overflow_checks) ==
    IF iterations = 0 \/ self.save_history = << >>
    THEN Returned(self)
    ELSE LET last == Len(self.save_history)
             popped == [self EXCEPT
                          !.generation = self.save_history[last],
                          !.save_history = SubSeq(self.save_history, 1, last - 1)]
         IN  IF self.generation_iteration = 0 /\ overflow_checks
             THEN Panicked(popped, SubtractOverflow)
             ELSE rollback_loop([popped EXCEPT !.generation_iteration = @ - 1],
                                iterations - 1, overflow_checks)

rollback_generations(self, iterations, overflow_checks) ==
    IF iterations = 0
    THEN Returned(self)
    ELSE LET rolled == rollback_loop(self, iterations, overflow_checks)
         IN  IF rolled.panic # NoPanic
             THEN rolled
             ELSE IF rolled.sim.display
                  THEN draw_generation(rolled.sim)
                  ELSE rolled

(***************************************************************************)
(* generation_from_string: Ok(generation), Err(message), or a panic when   *)
(* columns = 0 (index / columns is computed before the character is read). *)
(***************************************************************************)
U16 == 65536

\* The for loop returns at the first character that is neither alive nor
\* dead; without one, every alive character gives the cell at its index.
generation_from_string(seed, columns) ==
    LET invalid == {i \in 1..Len(seed) :
                        seed[i] \notin {ALIVE_CHAR, DEAD_CHAR}}
        first == CHOOSE i \in invalid : \A j \in invalid : i <= j
    IN  IF Len(seed) = 0
        THEN [kind |-> "Ok", generation |-> {}]
        ELSE IF columns = 0
        THEN [kind |-> "panic", message |-> DivideByZero]
        ELSE IF invalid # {}
        THEN [kind |-> "Err", character |-> seed[first]]
        ELSE [kind |-> "Ok",
              generation |->
                  {Cell_new(ALIVE, ((i - 1) % U16) \div columns,
                                   ((i - 1) % U16) % columns) :
                      i \in {j \in 1..Len(seed) : seed[j] = ALIVE_CHAR}}]

(***************************************************************************)
(* string_from_generation: rows * columns dead characters, then the alive  *)
(* character at row * columns + column of every cell; indexing past the    *)
(* end of the vector panics.  rows * columns is a u16 product: past        *)
(* 2^16 - 1 it panics with overflow checks and wraps without them.         *)
(***************************************************************************)
\* a * b in u16: the product or the panic of the build profile.
u16_multiply(a, b, overflow_checks) ==
    IF a * b >= U16 /\ overflow_checks
    THEN [kind |-> "panic", message |-> MultiplyOverflow]
    ELSE [kind |-> "Ok", value |-> (a * b) % U16]

\* string_from_generation placing a cell at row * rows + column.
string_from_generation_by_rows(generation, rows, columns, overflow_checks) ==
    LET product == u16_multiply(rows, columns, overflow_checks)
        length == product.value
    IN  IF product.kind = "panic"
        THEN product
        ELSE IF \E cell \in generation : cell.row * rows + cell.column >= length
        THEN [kind |-> "panic", message |-> IndexOutOfBounds]
        ELSE [kind |-> "Ok",
              string |-> [k \in 1..length |->
                            IF \E cell \in generation :
                                  cell.row * rows + cell.column = k - 1
                            THEN ALIVE_CHAR
                            ELSE DEAD_CHAR]]

string_from_generation(generation, rows, columns, overflow_checks) ==
    LET product == u16_multiply(rows, columns, overflow_checks)
        length == product.value
    IN  IF product.kind = "panic"
        THEN product
        ELSE IF \E cell \in generation : cell.row * columns + cell.column >= length
        THEN [kind |-> "panic", message |-> IndexOutOfBounds]
        ELSE [kind |-> "Ok",
              string |-> [k \in 1..length |->
                            IF \E cell \in generation :
                                  cell.row * columns + cell.column = k - 1
                            THEN ALIVE_CHAR
                            ELSE DEAD_CHAR]]

generation_string(self, overflow_checks) ==
    string_from_generation(self.generation, self.rows, self.columns,
                           overflow_checks)

\* Simulation::area
area(self, overflow_checks) ==
    u16_multiply(self.rows, self.columns, overflow_checks)

(***************************************************************************)
(* random_seed: every string of rows * columns alive and dead characters   *)
(* can be drawn, rows * columns being a u16 product.                       *)
(***************************************************************************)
random_seed(rows, columns, overflow_checks) ==
    LET length == u16_multiply(rows, columns, overflow_checks)
    IN  IF length.kind = "panic"
        THEN {length}
        ELSE {[kind |-> "Ok", seed |-> seed] :
                 seed \in [1..length.value -> {ALIVE_CHAR, DEAD_CHAR}]}

(***************************************************************************)
(* Simulation::reset, reset_to, reset_to_rand                              *)
(***************************************************************************)
\* reset emptying the history as well.
reset_clearing_history(self) ==
    LET decoded == generation_from_string(self.seed, self.columns)
    IN  IF decoded.kind = "Ok"
        THEN Returned([self EXCEPT !.generation = decoded.generation,
                                   !.generation_iteration = 0,
                                   !.save_history = << >>])
        ELSE IF decoded.kind = "Err"
        THEN Panicked(self, UnwrapErr)
        ELSE Panicked(self, decoded.message)

reset(self) ==
    LET decoded == generation_from_string(self.seed, self.columns)
    IN  IF decoded.kind = "Ok"
        THEN Returned([self EXCEPT !.generation = decoded.generation,
                                   !.generation_iteration = 0])
        ELSE IF decoded.kind = "Err"
        THEN Panicked(self, UnwrapErr)
        ELSE Panicked(self, decoded.message)

\* reset_to taking the number of rows from the length of the new seed.
reset_to_resizing(self, seed) ==
    LET decoded == generation_from_string(seed, self.columns)
    IN  IF decoded.kind = "Ok"
        THEN Returned([self EXCEPT !.generation = decoded.generation,
                                   !.seed = seed,
                                   !.rows = IF self.columns = 0 THEN @
                                            ELSE Len(seed) \div self.columns,
                                   !.generation_iteration = 0])
        ELSE IF decoded.kind = "Err"
        THEN Panicked(self, UnwrapErr)
        ELSE Panicked(self, decoded.message)

reset_to(self, seed) ==
    LET decoded == generation_from_string(seed, self.columns)
    IN  IF decoded.kind = "Ok"
        THEN Returned([self EXCEPT !.generation = decoded.generation,
                                   !.seed = seed,
                                   !.generation_iteration = 0])
        ELSE IF decoded.kind = "Err"
        THEN Panicked(self, UnwrapErr)
        ELSE Panicked(self, decoded.message)

\* The set of outcomes, one per seed random_seed can return.
reset_to_rand(self, overflow_checks) ==
    {IF random.kind = "Ok"
     THEN reset_to(self, random.seed)
     ELSE Panicked(self, random.message) :
        random \in random_seed(self.rows, self.columns, overflow_checks)}

(***************************************************************************)
(* Simulation::is_still, is_periodic, is_finished: the answer, or the      *)
(* panic of indexing save_history at its length (period 0).                *)
(***************************************************************************)
Answer(value) == [kind |-> "Ok", value |-> value]

\* is_periodic indexing the history from its oldest end.
is_periodic_from_oldest(self, period) ==
    IF Len(self.save_history) >= period
    THEN IF period = 0
         THEN [kind |-> "panic", message |-> IndexOutOfBounds]
         ELSE Answer(self.generation = self.save_history[period])
    ELSE Answer(FALSE)

\* save_history[len - period] of the 0-based Vec is save_history[len - period + 1].
is_periodic(self, period) ==
    IF Len(self.save_history) >= period
    THEN IF period = 0
         THEN [kind |-> "panic", message |-> IndexOutOfBounds]
         ELSE Answer(self.generation
                       = self.save_history[Len(self.save_history) - period + 1])
    ELSE Answer(FALSE)

is_still(self) == is_periodic(self, 1)

\* is_finished looking at the newest history entry only.
is_finished_newest(self) == is_periodic(self, 1)

is_finished(self) ==
    Answer(\E k \in 1..Len(self.save_history) :
              self.save_history[k] = self.generation)

(***************************************************************************)
(* Simulation::simulate_continuous_generations: one pass of its loop is    *)
(* simulate_generation() and then the test of the break; the sleep follows *)
(* a pass that did not break.                                              *)
(***************************************************************************)
simulate_generation(self) == simulate_generations(self, 1)

continuous_pass(self, stop_when_finished) ==
    LET simulated == simulate_generation(self)
    IN  [sim |-> simulated.sim,
         panic |-> simulated.panic,
         break |-> /\ simulated.panic = NoPanic
                   /\ stop_when_finished
                   /\ is_finished(simulated.sim).value]

(***************************************************************************)
(* impl Clone for Simulation: every field is copied or cloned, and the     *)
(* clone of the window data opens a new Window, which the windowing        *)
(* library either gives (nothing drawn in it yet) or refuses with a panic. *)
(***************************************************************************)
WindowUnavailable == "a second Window could not be created"

\* The record `target` with the fields named in `fields` taken from `source`.
Overwrite(target, source, fields) ==
    [field \in DOMAIN target |->
        IF field \in fields THEN source[field] ELSE target[field]]

\* clone() keeping the original's save_history by reference.
clone_sharing_history(self) ==
    {[kind |-> "Ok",
      sim |-> [self EXCEPT !.window_data =
                  IF @ = None THEN None ELSE Some([frame |-> {}])],
      shared |-> {"save_history"}]}

clone(self) ==
    {[kind |-> "Ok",
      sim |-> [self EXCEPT !.window_data =
                  IF @ = None THEN None ELSE Some([frame |-> {}])],
      shared |-> {}]}
    \cup (IF self.window_data = None
          THEN {}
          ELSE {[kind |-> "panic", message |-> WindowUnavailable]})

(***************************************************************************)
(* simulation_builder.rs: SimulationBuilder::build.  A builder is a record *)
(* of the fields build reads; an Option is None or its value, and the four *)
(* pixel sizes are None or Some(Pixels) (their values are not modelled).    *)
(***************************************************************************)
Pixels == "pixels"

RoundedSqrt(n) ==
    CHOOSE k \in 0..n : (k * k - k < n \/ k = 0) /\ n <= k * k + k

Ok(rows, columns, seed) == [kind |-> "Ok", rows |-> rows, columns |-> columns, seed |-> seed]
Err(message) == [kind |-> "Err", message |-> message]
Panic(message) == [kind |-> "panic", message |-> message]

\* The match without its square check: a seed alone always gives a square
\* grid of side round(sqrt(length)).
build_dimensions_unsquared(builder, overflow_checks) ==
    LET rows == Unwrap(builder.rows)
        columns == Unwrap(builder.columns)
        seed == Unwrap(builder.seed)
    IN  IF builder.rows # None /\ builder.columns # None /\ builder.seed # None
        THEN {Ok(rows, columns, seed)}
        ELSE IF builder.rows # None /\ builder.columns # None /\ builder.seed = None
        THEN {IF random.kind = "Ok"
              THEN Ok(rows, columns, random.seed)
              ELSE Panic(random.message) :
                 random \in random_seed(rows, columns, overflow_checks)}
        ELSE IF builder.rows # None /\ builder.columns = None /\ builder.seed # None
        THEN LET seed_length == Len(seed) % U16
             IN  IF rows = 0
                 THEN {Panic(DivideByZero)}
                 ELSE IF seed_length % rows = 0
                 THEN {Ok(rows, seed_length \div rows, seed)}
                 ELSE {Err("must be divisible by the number of rows")}
        ELSE IF builder.rows = None /\ builder.columns # None /\ builder.seed # None
        THEN LET seed_length == Len(seed) % U16
             IN  IF columns = 0
                 THEN {Panic(DivideByZero)}
                 ELSE IF seed_length % columns = 0
                 THEN {Ok(seed_length \div columns, columns, seed)}
                 ELSE {Err("must be divisible by the number of columns")}
        ELSE IF builder.rows = None /\ builder.columns = None /\ builder.seed # None
        THEN {Ok(RoundedSqrt(Len(seed)), RoundedSqrt(Len(seed)), seed)}
        ELSE IF builder.rows = None /\ builder.columns = None
        THEN {Err("One of the following must be provided: rows, columns, or seed")}
        ELSE {Err("Both rows and columns must be provided if no seed is provided")}

\* The match without its divisibility checks: the missing dimension is the
\* truncated quotient.
build_dimensions_truncating(builder, overflow_checks) ==
    LET rows == Unwrap(builder.rows)
        columns == Unwrap(builder.columns)
        seed == Unwrap(builder.seed)
    IN  IF builder.rows # None /\ builder.columns # None /\ builder.seed # None
        THEN {Ok(rows, columns, seed)}
        ELSE IF builder.rows # None /\ builder.columns # None /\ builder.seed = None
        THEN {IF random.kind = "Ok"
              THEN Ok(rows, columns, random.seed)
              ELSE Panic(random.message) :
                 random \in random_seed(rows, columns, overflow_checks)}
        ELSE IF builder.rows # None /\ builder.columns = None /\ builder.seed # None
        THEN IF rows = 0
             THEN {Panic(DivideByZero)}
             ELSE {Ok(rows, (Len(seed) % U16) \div rows, seed)}
        ELSE IF builder.rows = None /\ builder.columns # None /\ builder.seed # None
        THEN IF columns = 0
             THEN {Panic(DivideByZero)}
             ELSE {Ok((Len(seed) % U16) \div columns, columns, seed)}
        ELSE IF builder.rows = None /\ builder.columns = None /\ builder.seed # None
        THEN LET rounded_sqrt == RoundedSqrt(Len(seed))
             IN  IF rounded_sqrt * rounded_sqrt = Len(seed)
                 THEN {Ok(rounded_sqrt, rounded_sqrt, seed)}
                 ELSE {Err("must be of a square size")}
        ELSE IF builder.rows = None /\ builder.columns = None
        THEN {Err("One of the following must be provided: rows, columns, or seed")}
        ELSE {Err("Both rows and columns must be provided if no seed is provided")}

\* The match on (self.rows, self.columns, self.seed): the set of its results.
build_dimensions(builder, overflow_checks) ==
    LET rows == Unwrap(builder.rows)
        columns == Unwrap(builder.columns)
        seed == Unwrap(builder.seed)
    IN  IF builder.rows # None /\ builder.columns # None /\ builder.seed # None
        THEN {Ok(rows, columns, seed)}
        ELSE IF builder.rows # None /\ builder.columns # None /\ builder.seed = None
        THEN {IF random.kind = "Ok"
              THEN Ok(rows, columns, random.seed)
              ELSE Panic(random.message) :
                 random \in random_seed(rows, columns, overflow_checks)}
        ELSE IF builder.rows # None /\ builder.columns = None /\ builder.seed # None
        THEN LET seed_length == Len(seed) % U16
             IN  IF rows = 0
                 THEN {Panic(DivideByZero)}
                 ELSE IF seed_length % rows = 0
                 THEN {Ok(rows, seed_length \div rows, seed)}
                 ELSE {Err("must be divisible by the number of rows")}
        ELSE IF builder.rows = None /\ builder.columns # None /\ builder.seed # None
        THEN LET seed_length == Len(seed) % U16
             IN  IF columns = 0
                 THEN {Panic(DivideByZero)}
                 ELSE IF seed_length % columns = 0
                 THEN {Ok(seed_length \div columns, columns, seed)}
                 ELSE {Err("must be divisible by the number of columns")}
        ELSE IF builder.rows = None /\ builder.columns = None /\ builder.seed # None
        THEN LET rounded_sqrt == RoundedSqrt(Len(seed))
             IN  IF rounded_sqrt * rounded_sqrt = Len(seed)
                 THEN {Ok(rounded_sqrt, rounded_sqrt, seed)}
                 ELSE {Err("must be of a square size")}
        ELSE IF builder.rows = None /\ builder.columns = None
        THEN {Err("One of the following must be provided: rows, columns, or seed")}
        ELSE {Err("Both rows and columns must be provided if no seed is provided")}

\* The window_data block: Some window, None, an Err, or a panic when the
\* window size is divided by a zero dimension.
build_window_data(builder, rows, columns) ==
    IF ~builder.display
    THEN [kind |-> "Ok", window_data |-> None]
    ELSE IF /\ builder.window_width # None /\ builder.window_height # None
            /\ builder.cell_width = None /\ builder.cell_height = None
    THEN IF columns = 0 \/ rows = 0
         THEN Panic(DivideByZero)
         ELSE [kind |-> "Ok", window_data |-> Some([frame |-> {}])]
    ELSE IF /\ builder.window_width = None /\ builder.window_height = None
            /\ builder.cell_width # None /\ builder.cell_height # None
    THEN [kind |-> "Ok", window_data |-> Some([frame |-> {}])]
    ELSE IF /\ builder.window_width # None /\ builder.window_height # None
            /\ builder.cell_width # None /\ builder.cell_height # None
    THEN Err("Only cell dimensions or window dimensions can be provided, not both")
    ELSE Err("If the simulation has a display, a cell or window size must be provided")

\* The rest of build for one result of the match: the window, the decoded
\* seed (unwrap), the struct, and the unconditional draw_generation.
build_simulation(builder, dims) ==
    IF dims.kind # "Ok"
    THEN dims
    ELSE LET window == build_window_data(builder, dims.rows, dims.columns)
             decoded == generation_from_string(dims.seed, dims.columns)
         IN  IF window.kind # "Ok"
             THEN window
             ELSE IF decoded.kind = "Err"
             THEN Panic(UnwrapErr)
             ELSE IF decoded.kind = "panic"
             THEN Panic(decoded.message)
             ELSE LET simulation ==
                          [seed |-> dims.seed,
                           surface_type |-> builder.surface_type,
                           rows |-> dims.rows,
                           columns |-> dims.columns,
                           generation |-> decoded.generation,
                           generation_iteration |-> 0,
                           save_history |-> << >>,
                           maximum_saves |-> builder.maximum_saves,
                           display |-> builder.display,
                           window_data |-> window.window_data]
                      drawn == draw_generation(simulation)
                  IN  IF drawn.panic # NoPanic
                      THEN Panic(drawn.panic)
                      ELSE [kind |-> "Ok", simulation |-> drawn.sim]

build(builder, overflow_checks) ==
    {build_simulation(builder, dims) :
        dims \in build_dimensions(builder, overflow_checks)}

(***************************************************************************)
(* The program: a builder is configured and built, then the public methods *)
(* of the Simulation are called in any order.  calls records every call    *)
(* made on the simulation with the simulation it was made on.              *)
(* overflow_checks is the build profile the program was compiled with, and *)
(* simulation_builder is the SimulationBuilder that build consumed, and    *)
(* cloned is the Simulation that clone() returned, with the names of the   *)
(* fields it holds by reference to the original's (none: every field is    *)
(* copied or cloned).                                                      *)
(***************************************************************************)
VARIABLES simulation, status, panic, overflow_checks, calls,
          simulation_builder, cloned

vars == <<simulation, status, panic, overflow_checks, calls,
         simulation_builder, cloned>>

Option(S) == {None} \cup {Some(value) : value \in S}

SeedChars == {ALIVE_CHAR, DEAD_CHAR, "1"}

\* Seeds over the alive and dead characters, and the short seeds that hold
\* another character.
Seeds ==
    UNION {[1..n -> {ALIVE_CHAR, DEAD_CHAR}] : n \in 0..MaxSeedLen}
    \cup UNION {[1..n -> SeedChars] : n \in 1..MaxBadSeedLen}

PixelSizes == Option({Pixels})

\* Every way to configure the builder, within the bounds.
Builders ==
    [rows : Option(0..MaxRows),
     columns : Option(0..MaxColumns),
     seed : Option(Seeds),
     surface_type : SurfaceType,
     maximum_saves : 0..MaxSaves,
     display : BOOLEAN,
     window_width : PixelSizes,
     window_height : PixelSizes,
     cell_width : PixelSizes,
     cell_height : PixelSizes]

\* Builders with a display sized by cell_size, both dimensions given and a
\* random seed: rows(r).columns(c).display(true).cell_size(n).
DisplayBuilders(rows, columns) ==
    [rows : {Some(r) : r \in rows},
     columns : {Some(c) : c \in columns},
     seed : {None},
     surface_type : SurfaceType,
     maximum_saves : 0..MaxSaves,
     display : {TRUE},
     window_width : {None},
     window_height : {None},
     cell_width : {Some(Pixels)},
     cell_height : {Some(Pixels)}]

Init ==
    /\ simulation = None
    /\ status = "builder"
    /\ panic = NoPanic
    /\ overflow_checks \in BOOLEAN
    /\ calls = << >>
    /\ simulation_builder = None
    /\ cloned = None

Build(builders) ==
    /\ status = "builder"
    /\ \E configured \in builders : \E built \in build(configured, overflow_checks) :
          /\ simulation_builder' = Some(configured)
          /\ status' = IF built.kind = "Ok" THEN "built"
                       ELSE IF built.kind = "Err" THEN "error" ELSE "panicked"
          /\ simulation' = IF built.kind = "Ok" THEN Some(built.simulation) ELSE None
          /\ panic' = IF built.kind = "panic" THEN built.message ELSE NoPanic
    /\ UNCHANGED <<overflow_checks, calls, cloned>>

\* The simulation that build returned, as the calls have left it.
current == Unwrap(simulation)

\* The state after a call on the simulation that ended with `outcome`.
Called(name, argument, outcome) ==
    /\ simulation' = Some(outcome.sim)
    /\ panic' = outcome.panic
    /\ status' = IF outcome.panic = NoPanic THEN "built" ELSE "panicked"
    /\ calls' = Append(calls, [name |-> name, argument |-> argument,
                               before |-> current])
    /\ cloned' = IF cloned = None
                 THEN None
                 ELSE Some([Unwrap(cloned) EXCEPT
                              !.sim = Overwrite(@, outcome.sim,
                                                Unwrap(cloned).shared)])
    /\ UNCHANGED <<overflow_checks, simulation_builder>>

CanCall(max_calls) == status = "built" /\ Len(calls) < max_calls

SimulateGenerations(max_calls) ==
    /\ CanCall(max_calls)
    /\ \E iterations \in 0..MaxIterations :
          Called("simulate_generations", iterations,
                 simulate_generations(current, iterations))

\* simulate_generations(iterations) for a number of iterations in `counts`.
SimulateFor(max_calls, counts) ==
    /\ CanCall(max_calls)
    /\ \E iterations \in counts :
          Called("simulate_generations", iterations,
                 simulate_generations(current, iterations))

RollbackGenerations(max_calls) ==
    /\ CanCall(max_calls)
    /\ \E iterations \in 0..MaxIterations :
          Called("rollback_generations", iterations,
                 rollback_generations(current, iterations, overflow_checks))

Reset(max_calls) ==
    /\ CanCall(max_calls)
    /\ Called("reset", None, reset(current))

ResetTo(max_calls) ==
    /\ CanCall(max_calls)
    /\ \E seed \in Seeds : Called("reset_to", seed, reset_to(current, seed))

ResetToRand(max_calls) ==
    /\ CanCall(max_calls)
    /\ \E outcome \in reset_to_rand(current, overflow_checks) :
          Called("reset_to_rand", None, outcome)

\* The state after a query on the simulation that ended with `answer`: the
\* simulation is as it was, and the program ends there.
Answered(name, argument, answer) ==
    /\ calls' = Append(calls, [name |-> name, argument |-> argument,
                               before |-> current, answer |-> answer])
    /\ status' = IF answer.kind = "Ok" THEN "answered" ELSE "panicked"
    /\ panic' = IF answer.kind = "Ok" THEN NoPanic ELSE answer.message
    /\ UNCHANGED <<simulation, overflow_checks, simulation_builder, cloned>>

IsStill(max_calls) ==
    /\ CanCall(max_calls)
    /\ Answered("is_still", None, is_still(current))

IsPeriodic(max_calls) ==
    /\ CanCall(max_calls)
    /\ \E period \in 0..MaxPeriod :
          Answered("is_periodic", period, is_periodic(current, period))

IsFinished(max_calls) ==
    /\ CanCall(max_calls)
    /\ Answered("is_finished", None, is_finished(current))

Area(max_calls) ==
    /\ CanCall(max_calls)
    /\ Answered("area", None, area(current, overflow_checks))

GenerationString(max_calls) ==
    /\ CanCall(max_calls)
    /\ Answered("generation_string", None,
                generation_string(current, overflow_checks))

\* let mut copy = simulation.clone();
CloneSimulation(max_calls) ==
    /\ CanCall(max_calls)
    /\ cloned = None
    /\ \E outcome \in clone(current) :
          /\ cloned' = IF outcome.kind = "Ok"
                       THEN Some([sim |-> outcome.sim, shared |-> outcome.shared])
                       ELSE None
          /\ status' = IF outcome.kind = "Ok" THEN "built" ELSE "panicked"
          /\ panic' = IF outcome.kind = "Ok" THEN NoPanic ELSE outcome.message
    /\ calls' = Append(calls, [name |-> "clone", argument |-> None,
                               before |-> current])
    /\ UNCHANGED <<simulation, overflow_checks, simulation_builder>>

\* The state after a call on the clone that ended with `outcome`.
CalledOnClone(name, argument, outcome) ==
    /\ cloned' = Some([Unwrap(cloned) EXCEPT !.sim = outcome.sim])
    /\ simulation' = Some(Overwrite(current, outcome.sim, Unwrap(cloned).shared))
    /\ panic' = outcome.panic
    /\ status' = IF outcome.panic = NoPanic THEN "built" ELSE "panicked"
    /\ calls' = Append(calls, [name |-> name, argument |-> argument,
                               before |-> Unwrap(cloned).sim])
    /\ UNCHANGED <<overflow_checks, simulation_builder>>

CloneSimulateGenerations(max_calls) ==
    /\ CanCall(max_calls)
    /\ cloned # None
    /\ \E iterations \in 0..MaxIterations :
          CalledOnClone("clone.simulate_generations", iterations,
                        simulate_generations(Unwrap(cloned).sim, iterations))

CloneRollbackGenerations(max_calls) ==
    /\ CanCall(max_calls)
    /\ cloned # None
    /\ \E iterations \in 0..MaxIterations :
          CalledOnClone("clone.rollback_generations", iterations,
                        rollback_generations(Unwrap(cloned).sim, iterations,
                                             overflow_checks))

CloneReset(max_calls) ==
    /\ CanCall(max_calls)
    /\ cloned # None
    /\ CalledOnClone("clone.reset", None, reset(Unwrap(cloned).sim))

(***************************************************************************)
(* Spec: simulations with a display on grids up to MaxRows x MaxColumns,   *)
(* driven by up to MaxCalls calls of simulate_generations,                 *)
(* rollback_generations and reset.                                         *)
(***************************************************************************)
Next ==
    \/ Build(DisplayBuilders(1..MaxRows, 1..MaxColumns))
    \/ SimulateGenerations(MaxCalls)
    \/ RollbackGenerations(MaxCalls)
    \/ Reset(MaxCalls)

Spec == Init /\ [][Next]_vars

(***************************************************************************)
(* SpecGrid: every generation of every grid up to MaxGridRows x            *)
(* MaxGridColumns on every surface, advanced by one call.                  *)
(***************************************************************************)
NextGrid ==
    \/ Build(DisplayBuilders(1..MaxGridRows, 1..MaxGridColumns))
    \/ SimulateGenerations(MaxGridCalls)

SpecGrid == Init /\ [][NextGrid]_vars

(***************************************************************************)
(* SpecBuild: every configuration of the builder, a seed of any length     *)
(* included, followed by up to MaxBuildCalls calls of any method.          *)
(***************************************************************************)
NextBuild ==
    \/ Build(Builders)
    \/ SimulateGenerations(MaxBuildCalls)
    \/ RollbackGenerations(MaxBuildCalls)
    \/ Reset(MaxBuildCalls)
    \/ ResetTo(MaxBuildCalls)
    \/ ResetToRand(MaxBuildCalls)

SpecBuild == Init /\ [][NextBuild]_vars

(***************************************************************************)
(* SpecFrame: the simulations of Spec after up to MaxFrameCalls calls of   *)
(* simulate_generations, rollback_generations, reset, reset_to (a seed of  *)
(* any length) and reset_to_rand.                                          *)
(***************************************************************************)
NextFrame ==
    \/ Build(DisplayBuilders(1..MaxRows, 1..MaxColumns))
    \/ SimulateGenerations(MaxFrameCalls)
    \/ RollbackGenerations(MaxFrameCalls)
    \/ Reset(MaxFrameCalls)
    \/ ResetTo(MaxFrameCalls)
    \/ ResetToRand(MaxFrameCalls)

SpecFrame == Init /\ [][NextFrame]_vars

(***************************************************************************)
(* SpecWidth: the simulations of Spec and the simulation of WideRows x     *)
(* WideColumns cells, whose area is 2^16, are built with a random seed and *)
(* asked their area() or their generation_string().                        *)
(***************************************************************************)
NextWidth ==
    \/ Build(DisplayBuilders(1..MaxRows, 1..MaxColumns)
             \cup DisplayBuilders({WideRows}, {WideColumns}))
    \/ Area(MaxWidthCalls)
    \/ GenerationString(MaxWidthCalls)

SpecWidth == Init /\ [][NextWidth]_vars

(***************************************************************************)
(* SpecReset: the simulations of Spec after up to MaxResetCalls calls of   *)
(* simulate_generations, rollback_generations, reset, reset_to and         *)
(* reset_to_rand, asked is_finished.                                       *)
(***************************************************************************)
NextReset ==
    \/ Build(DisplayBuilders(1..MaxRows, 1..MaxColumns))
    \/ SimulateGenerations(MaxResetCalls)
    \/ RollbackGenerations(MaxResetCalls)
    \/ Reset(MaxResetCalls)
    \/ ResetTo(MaxResetCalls)
    \/ ResetToRand(MaxResetCalls)
    \/ IsFinished(MaxResetCalls + 1)

SpecReset == Init /\ [][NextReset]_vars

(***************************************************************************)
(* SpecQuery: the simulations of Spec after up to MaxQueryCalls calls of   *)
(* simulate_generations, rollback_generations and reset, asked is_still,   *)
(* is_periodic or is_finished.                                             *)
(***************************************************************************)
NextQuery ==
    \/ Build(DisplayBuilders(1..MaxRows, 1..MaxColumns))
    \/ SimulateGenerations(MaxQueryCalls)
    \/ RollbackGenerations(MaxQueryCalls)
    \/ Reset(MaxQueryCalls)
    \/ IsStill(MaxQueryCalls + 1)
    \/ IsPeriodic(MaxQueryCalls + 1)
    \/ IsFinished(MaxQueryCalls + 1)

SpecQuery == Init /\ [][NextQuery]_vars

(***************************************************************************)
(* SpecClone: a simulation of Spec is cloned, and simulate_generations,    *)
(* rollback_generations and reset are called on the original and on the    *)
(* clone, up to MaxCloneCalls calls in all.                                *)
(***************************************************************************)
NextClone ==
    \/ Build(DisplayBuilders(1..MaxRows, 1..MaxColumns))
    \/ SimulateGenerations(MaxCloneCalls)
    \/ RollbackGenerations(MaxCloneCalls)
    \/ Reset(MaxCloneCalls)
    \/ CloneSimulation(MaxCloneCalls)
    \/ CloneSimulateGenerations(MaxCloneCalls)
    \/ CloneRollbackGenerations(MaxCloneCalls)
    \/ CloneReset(MaxCloneCalls)

SpecClone == Init /\ [][NextClone]_vars

(***************************************************************************)
(* SpecContinuous: simulate_continuous_generations is called on a          *)
(* simulation of up to MaxContinuousRows x MaxContinuousColumns cells, and *)
(* its loop makes pass after pass until it breaks.  Nothing in the loop    *)
(* reads generation_iteration: it is kept up to MaxContinuousIteration, so *)
(* that a loop that never breaks goes round a cycle of states.  A pass     *)
(* that is due is made in the end: the thread sleeps for cooldown and goes *)
(* on.                                                                     *)
(***************************************************************************)
\* The call enters the loop.
SimulateContinuousGenerations(max_calls) ==
    /\ CanCall(max_calls)
    /\ \E stop_when_finished \in BOOLEAN :
          calls' = Append(calls, [name |-> "simulate_continuous_generations",
                                  argument |-> stop_when_finished,
                                  before |-> current])
    /\ status' = "running"
    /\ UNCHANGED <<simulation, panic, overflow_checks, simulation_builder,
                   cloned>>

\* One pass of the loop, which returns from the call when it breaks.
ContinuousPass ==
    /\ status = "running"
    /\ \E pass \in {continuous_pass(current, calls[Len(calls)].argument)} :
           /\ simulation' =
                 Some([pass.sim EXCEPT !.generation_iteration =
                          IF @ > MaxContinuousIteration
                          THEN MaxContinuousIteration ELSE @])
           /\ panic' = pass.panic
           /\ status' = IF pass.panic # NoPanic THEN "panicked"
                        ELSE IF pass.break THEN "built" ELSE "running"
    /\ UNCHANGED <<overflow_checks, calls, simulation_builder, cloned>>

NextContinuous ==
    \/ Build(DisplayBuilders(1..MaxContinuousRows, 1..MaxContinuousColumns))
    \/ SimulateContinuousGenerations(MaxContinuousCalls)
    \/ ContinuousPass

SpecContinuous ==
    Init /\ [][NextContinuous]_vars /\ WF_vars(ContinuousPass)

(***************************************************************************)
(* test_cases.rs: the spaceship seeds and the generations expected after   *)
(* NUMBER_OF_SPACESHIP_GENERATIONS steps, one number of digits 1 (alive)   *)
(* and 0 (dead) per row of the grid.                                       *)
(***************************************************************************)
NUMBER_OF_SPACESHIP_GENERATIONS == 15
SPACESHIP_SIMULATION_SIZE == 9

UP_SPACESHIP_SEED ==
    <<000000000, 000000000, 000111000,
      000100100, 000100000, 000100000,
      000010100, 000000000, 000000000>>

DOWN_SPACESHIP_SEED ==
    <<000000000, 000000000, 000010100,
      000100000, 000100000, 000100100,
      000111000, 000000000, 000000000>>

LEFT_SPACESHIP_SEED ==
    <<000000000, 000000000, 000100100,
      001000000, 001000100, 001111000,
      000000000, 000000000, 000000000>>

RIGHT_SPACESHIP_SEED ==
    <<000000000, 000000000, 001001000,
      000000100, 001000100, 000111100,
      000000000, 000000000, 000000000>>

UP_SPACESHIP_CRASHED ==
    <<000000000, 000000000, 000000100,
      000000011, 000000110, 000000000,
      000000000, 000000000, 000000000>>

DOWN_SPACESHIP_CRASHED ==
    <<000000000, 000000000, 000000000,
      000000000, 000000110, 000000011,
      000000100, 000000000, 000000000>>

LEFT_SPACESHIP_CRASHED ==
    <<000100000, 000110000, 001010000,
      000000000, 000000000, 000000000,
      000000000, 000000000, 000000000>>

RIGHT_SPACESHIP_CRASHED ==
    <<000001000, 000011000, 000010100,
      000000000, 000000000, 000000000,
      000000000, 000000000, 000000000>>

UP_SPACESHIP_WRAPPED ==
    <<000000000, 000000000, 000000000,
      000010000, 000111000, 000101100,
      000011100, 000011000, 000000000>>

DOWN_SPACESHIP_WRAPPED ==
    <<000000000, 000011000, 000011100,
      000101100, 000111000, 000010000,
      000000000, 000000000, 000000000>>

LEFT_SPACESHIP_WRAPPED ==
    <<000000000, 000000000, 000001100,
      000011110, 000110110, 000011000,
      000000000, 000000000, 000000000>>

RIGHT_SPACESHIP_WRAPPED ==
    <<000000000, 000000000, 001100000,
      011110000, 011011000, 000110000,
      000000000, 000000000, 000000000>>

\* The string of alive and dead characters for the digits 1 and 0.
FromDigits(digits) ==
    [k \in 1..(SPACESHIP_SIMULATION_SIZE * SPACESHIP_SIMULATION_SIZE) |->
        LET row == (k - 1) \div SPACESHIP_SIMULATION_SIZE
            column == (k - 1) % SPACESHIP_SIMULATION_SIZE
            digit == (digits[row + 1]
                        \div 10 ^ (SPACESHIP_SIMULATION_SIZE - 1 - column)) % 10
        IN  IF digit = 1 THEN ALIVE_CHAR ELSE DEAD_CHAR]

SpaceshipSeeds ==
    {UP_SPACESHIP_SEED, DOWN_SPACESHIP_SEED,
     LEFT_SPACESHIP_SEED, RIGHT_SPACESHIP_SEED}

\* The simulations of the spaceship tests, shown in a window.
SpaceshipBuilders ==
    [rows : {Some(SPACESHIP_SIMULATION_SIZE)},
     columns : {Some(SPACESHIP_SIMULATION_SIZE)},
     seed : {Some(FromDigits(digits)) : digits \in SpaceshipSeeds},
     surface_type : SurfaceType,
     maximum_saves : 1..MaxSaves,
     display : {TRUE},
     window_width : {None},
     window_height : {None},
     cell_width : {Some(Pixels)},
     cell_height : {Some(Pixels)}]

(***************************************************************************)
(* SpecSpaceship: a spaceship simulation advanced by one call of           *)
(* simulate_generations, of up to NUMBER_OF_SPACESHIP_GENERATIONS steps.   *)
(***************************************************************************)
NextSpaceship ==
    \/ Build(SpaceshipBuilders)
    \/ SimulateFor(MaxSpaceshipCalls, 1..NUMBER_OF_SPACESHIP_GENERATIONS)

SpecSpaceship == Init /\ [][NextSpaceship]_vars

(***************************************************************************)
(* Properties.                                                             *)
(***************************************************************************)
Built == status = "built"

Last(sequence) == sequence[Len(sequence)]
Front(sequence) == SubSeq(sequence, 1, Len(sequence) - 1)

\* The last call was `name` and it returned.
LastCallReturned(name) ==
    /\ Built
    /\ calls # << >>
    /\ Last(calls).name = name

(***************************************************************************)
(* SpecString: the public functions generation_from_string and             *)
(* string_from_generation, called on every seed and every generation       *)
(* within the bounds, and then on each other's result.                     *)
(***************************************************************************)
\* Generations over the cells of the largest grid, in range or not for the
\* rows and columns they are used with.
Generations ==
    SUBSET {Cell_new(ALIVE, row, column) :
               row \in 0..MaxRows, column \in 0..MaxColumns}

InitString ==
    /\ simulation = None
    /\ status = "functions"
    /\ panic = NoPanic
    /\ overflow_checks \in BOOLEAN
    /\ calls = << >>
    /\ simulation_builder = None
    /\ cloned = None

\* The state after a call of a function that gave `answer`.
Applied(name, argument, answer) ==
    /\ calls' = Append(calls, [name |-> name, argument |-> argument,
                               answer |-> answer])
    /\ status' = IF answer.kind = "panic" THEN "panicked" ELSE "functions"
    /\ panic' = IF answer.kind = "panic" THEN answer.message ELSE NoPanic
    /\ UNCHANGED <<simulation, overflow_checks, simulation_builder, cloned>>

CanApply == status = "functions" /\ Len(calls) < MaxStringCalls

\* A seed of the bounded set, or the string the previous call returned.
GenerationFromString ==
    /\ CanApply
    /\ \E columns \in 0..MaxColumns :
       \E seed \in IF calls = << >>
                   THEN Seeds
                   ELSE IF Last(calls).name = "string_from_generation"
                   THEN {Last(calls).answer.string}
                   ELSE {} :
          Applied("generation_from_string",
                  [seed |-> seed, columns |-> columns],
                  generation_from_string(seed, columns))

\* A generation of the bounded set, or the one the previous call returned.
StringFromGeneration ==
    /\ CanApply
    /\ \E rows \in 0..MaxRows, columns \in 0..MaxColumns :
       \E generation \in IF calls = << >>
                         THEN Generations
                         ELSE IF /\ Last(calls).name = "generation_from_string"
                                 /\ Last(calls).answer.kind = "Ok"
                         THEN {Last(calls).answer.generation}
                         ELSE {} :
          Applied("string_from_generation",
                  [generation |-> generation, rows |-> rows, columns |-> columns],
                  string_from_generation(generation, rows, columns,
                                         overflow_checks))

NextString ==
    \/ GenerationFromString
    \/ StringFromGeneration

SpecString == InitString /\ [][NextString]_vars

\* The alive cells of a generation, by coordinate.
AliveAt(generation, row, column) ==
    \E cell \in generation : cell.row = row /\ cell.column = column

InRange(sim, cell) ==
    /\ 0 <= cell.row /\ cell.row < sim.rows
    /\ 0 <= cell.column /\ cell.column < sim.columns

\* The Moore neighbourhood as the surface table gives it: an out-of-range
\* coordinate is taken modulo the axis length on a wrapping axis and is dead
\* on a bounded one.
WrapsRows(surface) == surface \in {Ball, VerticalLoop}
WrapsColumns(surface) == surface \in {Ball, HorizontalLoop}

MooreOffsets == {<<dr, dc>> \in {-1, 0, 1} \X {-1, 0, 1} : <<dr, dc>> # <<0, 0>>}

MooreTargetAlive(sim, row, column) ==
    LET row_in == row \in 0..(sim.rows - 1)
        column_in == column \in 0..(sim.columns - 1)
    IN  /\ row_in \/ WrapsRows(sim.surface_type)
        /\ column_in \/ WrapsColumns(sim.surface_type)
        /\ AliveAt(sim.generation, row % sim.rows, column % sim.columns)

MooreCount(sim, row, column) ==
    Cardinality({offset \in MooreOffsets :
                    MooreTargetAlive(sim, row + offset[1], column + offset[2])})

\* Conway's rule for one cell, all counts taken from sim.generation.
RuleAlive(sim, row, column) ==
    \/ /\ AliveAt(sim.generation, row, column)
       /\ MooreCount(sim, row, column) \in {2, 3}
    \/ /\ ~AliveAt(sim.generation, row, column)
       /\ MooreCount(sim, row, column) = 3

RuleStep(sim) ==
    [sim EXCEPT !.generation =
        {cell \in GridCells(sim) : RuleAlive(sim, cell.row, cell.column)}
        \cup {cell \in sim.generation : ~InRange(sim, cell)}]

RECURSIVE RuleSteps(_, _)
RuleSteps(sim, n) == IF n = 0 THEN sim ELSE RuleSteps(RuleStep(sim), n - 1)

\* C1: each step of simulate_generations replaces the generation G by G'
\* where, for every in-range cell, the cell is alive in G' iff it is alive in
\* G with 2 or 3 alive neighbours in G, or dead in G with exactly 3 alive
\* neighbours in G: after simulate_generations(n) the in-range cells are
\* those of n such synchronous steps from the generation before the call.
C1_SynchronousRule ==
    LastCallReturned("simulate_generations") =>
        LET call == Last(calls)
            expected == RuleSteps(call.before, call.argument)
        IN  \A cell \in GridCells(current) :
                cell \in current.generation <=> cell \in expected.generation

\* A one-step call on a 3 x 3 grid in which one cell died of overcrowding,
\* one of isolation, one was born and one survived.
C1_Witness ==
    /\ LastCallReturned("simulate_generations")
    /\ Last(calls).argument = 1
    /\ current.rows = 3 /\ current.columns = 3
    /\ LET before == Last(calls).before
       IN  /\ \E cell \in before.generation :
                /\ MooreCount(before, cell.row, cell.column) > 3
                /\ cell \notin current.generation
           /\ \E cell \in before.generation :
                /\ MooreCount(before, cell.row, cell.column) < 2
                /\ cell \notin current.generation
           /\ \E cell \in current.generation : cell \notin before.generation
           /\ \E cell \in current.generation : cell \in before.generation

\* C2: on every surface and grid, get_alive_neighbors of an in-range cell is
\* in 0..8 and equals the number of Moore offsets whose target is alive, a
\* target out of range being taken modulo the axis length on a wrapping axis
\* and dead on a bounded one.
C2_NeighborCount ==
    Built =>
        \A cell \in GridCells(current) :
            /\ get_alive_neighbors(current, cell) \in 0..8
            /\ get_alive_neighbors(current, cell)
                  = MooreCount(current, cell.row, cell.column)

\* A 3 x 3 grid whose only alive cells are on the bottom row: the top-left
\* cell counts them on a surface that wraps rows, and a Rectangle counts none.
C2_Witness ==
    /\ Built
    /\ current.rows = 3 /\ current.columns = 3
    /\ current.generation = {Cell_new(ALIVE, 2, 0), Cell_new(ALIVE, 2, 2)}
    /\ \/ /\ current.surface_type = Rectangle
          /\ get_alive_neighbors(current, Cell_new(ALIVE, 0, 0)) = 0
       \/ /\ current.surface_type = VerticalLoop
          /\ get_alive_neighbors(current, Cell_new(ALIVE, 0, 0)) = 1
       \/ /\ current.surface_type = Ball
          /\ get_alive_neighbors(current, Cell_new(ALIVE, 0, 0)) = 2

(***************************************************************************)
(* History and counter properties, on Spec.                                *)
(***************************************************************************)
Min(a, b) == IF a <= b THEN a ELSE b

IsSimulate(call) == call.name = "simulate_generations"
IsRollback(call) == call.name = "rollback_generations"

\* Steps advanced minus steps rolled back over the first k calls.
RECURSIVE NetSteps(_)
NetSteps(k) ==
    IF k = 0 THEN 0
    ELSE IF IsSimulate(calls[k]) THEN NetSteps(k - 1) + calls[k].argument
    ELSE IF IsRollback(calls[k]) THEN NetSteps(k - 1) - calls[k].argument
    ELSE NetSteps(k - 1)

\* No call of simulate_generations had to evict a history entry.
NothingEvicted ==
    \A k \in 1..Len(calls) :
        (IsSimulate(calls[k]) /\ calls[k].argument >= 1) =>
            Len(calls[k].before.save_history) < calls[k].before.maximum_saves

\* C3: after any sequence of simulate_generations and rollback_generations
\* calls whose running net step count never drops below 0 and which evicts
\* nothing, the generation is that of a fresh clone of the built simulation
\* advanced by the net step count in a single call.
C3_NetStepsFromSeed ==
    ( /\ Built
      /\ calls # << >>
      /\ \A k \in 1..Len(calls) : IsSimulate(calls[k]) \/ IsRollback(calls[k])
      /\ \A k \in 1..Len(calls) : NetSteps(k) >= 0
      /\ NothingEvicted )
    => LET fresh == calls[1].before
           single == simulate_generations(fresh, NetSteps(Len(calls)))
       IN  /\ single.panic = NoPanic
           /\ current.generation = single.sim.generation

\* C4: simulate_generations(n) immediately followed by
\* rollback_generations(n), 1 <= n <= maximum_saves and nothing evicted,
\* leaves the generation held before the simulate_generations call.
C4_SimulateThenRollback ==
    ( /\ Built
      /\ Len(calls) >= 2
      /\ IsRollback(Last(calls))
      /\ IsSimulate(Last(Front(calls)))
      /\ Last(calls).argument = Last(Front(calls)).argument
      /\ Last(calls).argument >= 1
      /\ Last(calls).argument <= current.maximum_saves
      /\ Len(Last(Front(calls)).before.save_history) < current.maximum_saves )
    => current.generation = Last(Front(calls)).before.generation

C6_StepAdditivity ==
    ( /\ Built
      /\ Len(calls) >= 2
      /\ IsSimulate(Last(calls))
      /\ IsSimulate(Last(Front(calls))) )
    => LET first == Last(Front(calls))
           single == simulate_generations(first.before,
                                          first.argument + Last(calls).argument)
       IN  /\ single.panic = NoPanic
           /\ single.sim.generation = current.generation
           /\ single.sim.generation_iteration = current.generation_iteration

\* simulate_generations(1) twice, through three different generations.
C6_Witness ==
    /\ Built
    /\ Len(calls) >= 2
    /\ IsSimulate(Last(calls)) /\ Last(calls).argument = 1
    /\ IsSimulate(Last(Front(calls))) /\ Last(Front(calls)).argument = 1
    /\ Last(calls).before.generation # current.generation
    /\ Last(Front(calls)).before.generation # current.generation
    /\ Last(Front(calls)).before.generation # Last(calls).before.generation

\* C7: simulate_generations(n) increases generation_iteration by exactly n,
\* and rollback_generations(n) pops min(n, history length) entries and
\* decreases generation_iteration by exactly 1 for each, the counter holding
\* the difference itself (a u128 holds no value below 0).
C7_IterationArithmetic ==
    (status \in {"built", "panicked"} /\ calls # << >>) =>
        LET call == Last(calls)
            before == call.before
            popped == Len(before.save_history) - Len(current.save_history)
        IN  /\ (IsSimulate(call) /\ Built) =>
                  current.generation_iteration
                     = before.generation_iteration + call.argument
            /\ IsRollback(call) =>
                  /\ popped = Min(call.argument, Len(before.save_history))
                  /\ current.generation_iteration
                        = before.generation_iteration - popped
                  /\ current.generation_iteration >= 0

\* C8: generation_iteration never goes below 0: no call subtracts 1 from a
\* counter that is 0.
C8_IterationNeverBelowZero ==
    status \in {"built", "panicked"} =>
        /\ panic # SubtractOverflow
        /\ current.generation_iteration >= 0

\* C9: the history holds at most maximum_saves generations.
C9_HistoryBounded ==
    status \in {"built", "panicked"} =>
        Len(current.save_history) <= current.maximum_saves

\* A simulate_generations call made on a full history returned.
C9_Witness ==
    /\ LastCallReturned("simulate_generations")
    /\ Last(calls).argument >= 1
    /\ Len(Last(calls).before.save_history) = current.maximum_saves
    /\ Len(current.save_history) = current.maximum_saves

(***************************************************************************)
(* Generation well-formedness, on SpecBuild.                               *)
(***************************************************************************)
WellFormed(sim, generation) ==
    /\ \A cell \in generation : is_alive(cell) /\ InRange(sim, cell)
    /\ \A c1, c2 \in generation :
          (c1.row = c2.row /\ c1.column = c2.column) => c1 = c2

\* C10: every cell stored in generation and in every history entry is alive,
\* has 0 <= row < rows and 0 <= column < columns, and shares its coordinate
\* with no other stored cell (stated for the grids of positive dimensions).
C10_CellsInRange ==
    (Built /\ current.rows >= 1 /\ current.columns >= 1) =>
        /\ WellFormed(current, current.generation)
        /\ \A k \in 1..Len(current.save_history) :
              WellFormed(current, current.save_history[k])

(***************************************************************************)
(* The outcome of build, on SpecBuild.                                     *)
(***************************************************************************)
\* build has been called and nothing has been called since.
JustBuilt == status # "builder" /\ calls = << >>

configured == Unwrap(simulation_builder)

Supplied(option) == option # None

\* rows(0), columns(0) or seed("") was supplied.
ZeroSized(b) ==
    \/ b.rows = Some(0)
    \/ b.columns = Some(0)
    \/ (Supplied(b.seed) /\ Len(Unwrap(b.seed)) = 0)

\* C11: every simulation build returns has rows > 0 and columns > 0, and a
\* builder given 0 rows, 0 columns or an empty seed yields an error: no
\* simulation and no panic (stated for the builders with a display).
C11_PositiveDimensions ==
    /\ Built => (current.rows > 0 /\ current.columns > 0)
    /\ (JustBuilt /\ configured.display /\ ZeroSized(configured))
          => status = "error"

(***************************************************************************)
(* The answers of is_still, is_periodic and is_finished, on SpecQuery.     *)
(***************************************************************************)
\* The last call was the query `name`, and it answered or panicked.
LastQuery(name) ==
    /\ status \in {"answered", "panicked"}
    /\ calls # << >>
    /\ Last(calls).name = name

\* A generation as the set of the coordinates of its alive cells.
Coordinates(generation) ==
    {<<cell.row, cell.column>> : cell \in {c \in generation : is_alive(c)}}

Reverse(sequence) ==
    [k \in 1..Len(sequence) |-> sequence[Len(sequence) - k + 1]]

\* C12: is_still() is true iff one more step of the rule would leave the
\* generation unchanged (stated for a positive maximum_saves).
C12_StillIffUnchanged ==
    (LastQuery("is_still") /\ status = "answered"
                           /\ current.maximum_saves >= 1) =>
        (Last(calls).answer.value
            <=> Coordinates(RuleStep(current).generation)
                   = Coordinates(current.generation))

\* C13: for period >= 1, is_periodic(period) answers, without a panic, true
\* iff the history holds at least period entries and the generation equals,
\* as a set of alive cells, the entry period positions back from the newest
\* end of the history.
C13_PeriodicAnswer ==
    (LastQuery("is_periodic") /\ Last(calls).argument >= 1) =>
        LET period == Last(calls).argument
            newest_first == Reverse(current.save_history)
        IN  /\ status = "answered"
            /\ Last(calls).answer.value
                  <=> /\ Len(newest_first) >= period
                      /\ Coordinates(current.generation)
                            = Coordinates(newest_first[period])

\* is_periodic(2) answered true on a generation that differs from the newest
\* history entry.
C13_Witness ==
    /\ LastQuery("is_periodic")
    /\ status = "answered"
    /\ Last(calls).argument = 2
    /\ Last(calls).answer.value
    /\ current.generation # Last(current.save_history)

\* C14: is_finished() is true iff the generation equals, as a set of alive
\* cells, at least one generation of the history; it is false on an empty
\* history.
C14_FinishedAnswer ==
    LastQuery("is_finished") =>
        /\ status = "answered"
        /\ Last(calls).answer.value
              <=> \E k \in 1..Len(current.save_history) :
                     Coordinates(current.generation)
                        = Coordinates(current.save_history[k])

\* is_finished() answered true on a generation that is in the history but is
\* not its newest entry.
C14_Witness ==
    /\ LastQuery("is_finished")
    /\ status = "answered"
    /\ Last(calls).answer.value
    /\ current.generation # Last(current.save_history)

(***************************************************************************)
(* rollback_generations and reset, call by call, on Spec.                  *)
(***************************************************************************)
\* C15: rollback_generations(n) returns without an error having popped the
\* min(n, history length) newest entries; the generation is the last entry
\* popped (the earliest saved one, with an empty history, when n exceeds the
\* history length), and nothing changes when nothing is popped.
C15_RollbackPops ==
    (status \in {"built", "panicked"} /\ calls # << >>
                                      /\ IsRollback(Last(calls))) =>
        LET before == Last(calls).before
            popped == Min(Last(calls).argument, Len(before.save_history))
            kept == Len(before.save_history) - popped
        IN  /\ status = "built"
            /\ current.save_history = SubSeq(before.save_history, 1, kept)
            /\ popped > 0 => current.generation = before.save_history[kept + 1]
            /\ popped = 0 =>
                  /\ current.generation = before.generation
                  /\ current.generation_iteration = before.generation_iteration
                  /\ current.seed = before.seed

\* The alive coordinates a seed describes, read in row-major order.
RowMajor(seed, rows, columns) ==
    {coordinate \in (0..(rows - 1)) \X (0..(columns - 1)) :
        seed[coordinate[1] * columns + coordinate[2] + 1] = ALIVE_CHAR}

\* C16: reset() sets the generation to the decoding of the stored seed and
\* generation_iteration to 0, and leaves seed, history, rows, columns,
\* surface type and maximum_saves as they were.
C16_ResetFrame ==
    (status \in {"built", "panicked"} /\ calls # << >>
                                      /\ Last(calls).name = "reset") =>
        LET before == Last(calls).before
        IN  /\ status = "built"
            /\ Coordinates(current.generation)
                  = RowMajor(before.seed, before.rows, before.columns)
            /\ \A cell \in current.generation : is_alive(cell)
            /\ current.generation_iteration = 0
            /\ current.seed = before.seed
            /\ current.save_history = before.save_history
            /\ current.rows = before.rows
            /\ current.columns = before.columns
            /\ current.surface_type = before.surface_type
            /\ current.maximum_saves = before.maximum_saves

\* reset() returned on a simulation that had advanced away from its seed
\* and held a history.
C16_Witness ==
    /\ LastCallReturned("reset")
    /\ Last(calls).before.generation # current.generation
    /\ Last(calls).before.generation_iteration > 0
    /\ Last(calls).before.save_history # << >>

(***************************************************************************)
(* Seeds given to build and reset_to, on SpecBuild.                        *)
(***************************************************************************)
\* The last call was `name`, and it returned or panicked.
LastCall(name) ==
    /\ status \in {"built", "panicked"}
    /\ calls # << >>
    /\ Last(calls).name = name

HasInvalidCharacter(seed) ==
    \E k \in 1..Len(seed) : seed[k] \notin {ALIVE_CHAR, DEAD_CHAR}

\* A simulation whose rows, columns and seed agree.
Consistent(sim) ==
    /\ sim.rows >= 1
    /\ sim.columns >= 1
    /\ Len(sim.seed) = sim.rows * sim.columns

\* C17: reset_to(seed) with a seed whose length differs from rows * columns
\* is rejected: generation, seed and generation_iteration stay unchanged.
C17_ResetToValidatesLength ==
    (LastCall("reset_to") /\ Consistent(Last(calls).before)) =>
        LET before == Last(calls).before
        IN  Len(Last(calls).argument) # before.rows * before.columns =>
               /\ current.generation = before.generation
               /\ current.seed = before.seed
               /\ current.generation_iteration = before.generation_iteration

\* C18: build and reset_to given a seed with a character other than the
\* alive and dead characters report an error and do not panic; the
\* simulation is unchanged after such a reset_to.
C18_InvalidCharacterIsError ==
    /\ ( /\ JustBuilt
         /\ configured.display
         /\ ~ZeroSized(configured)
         /\ Supplied(configured.seed)
         /\ HasInvalidCharacter(Unwrap(configured.seed)) ) => status = "error"
    /\ ( /\ LastCall("reset_to")
         /\ Consistent(Last(calls).before)
         /\ HasInvalidCharacter(Last(calls).argument) ) =>
            /\ status # "panicked"
            /\ current = Last(calls).before

\* C19: with rows, columns and a seed all supplied, build returns an error
\* whenever rows * columns differs from the seed length, and a simulation
\* only when they are equal (stated for positive rows and columns, a seed of
\* alive and dead characters and a display).
C19_SeedLengthChecked ==
    ( /\ JustBuilt
      /\ Supplied(configured.rows)
      /\ Supplied(configured.columns)
      /\ Supplied(configured.seed)
      /\ configured.display
      /\ ~ZeroSized(configured)
      /\ ~HasInvalidCharacter(Unwrap(configured.seed)) ) =>
        LET cells == Unwrap(configured.rows) * Unwrap(configured.columns)
            length == Len(Unwrap(configured.seed))
        IN  /\ status = "built" => cells = length
            /\ cells # length => status = "error"


\* A seed and exactly one dimension, a positive one, were supplied.
OneDimension(b) ==
    /\ Supplied(b.seed)
    /\ \/ Supplied(b.rows) /\ ~Supplied(b.columns) /\ Unwrap(b.rows) > 0
       \/ Supplied(b.columns) /\ ~Supplied(b.rows) /\ Unwrap(b.columns) > 0

\* The builder of the example: rows(5) and a seed of 23 characters.
FiveRows ==
    [rows |-> Some(5), columns |-> None, seed |-> Some([k \in 1..23 |-> DEAD_CHAR]),
     surface_type |-> Rectangle, maximum_saves |-> 1, display |-> TRUE,
     window_width |-> None, window_height |-> None,
     cell_width |-> Some(Pixels), cell_height |-> Some(Pixels)]

IsPerfectSquare(n) == \E k \in 0..n : k * k = n

LastApplied(name) ==
    /\ status \in {"functions", "panicked"}
    /\ calls # << >>
    /\ Last(calls).name = name

\* The position of the first character of the seed that is neither the
\* alive nor the dead character.
FirstInvalid(seed) ==
    CHOOSE k \in 1..Len(seed) :
        /\ seed[k] \notin {ALIVE_CHAR, DEAD_CHAR}
        /\ \A j \in 1..(k - 1) : seed[j] \in {ALIVE_CHAR, DEAD_CHAR}

\* C22: generation_from_string returns an error, and no generation, for a
\* seed with a character other than '*' and '-', and the error carries that
\* character and its position in the seed.
C22_DecodeError ==
    ( /\ LastApplied("generation_from_string")
      /\ Last(calls).argument.columns >= 1
      /\ HasInvalidCharacter(Last(calls).argument.seed) ) =>
        LET seed == Last(calls).argument.seed
            answer == Last(calls).answer
        IN  /\ answer.kind = "Err"
            /\ "generation" \notin DOMAIN answer
            /\ answer.character = seed[FirstInvalid(seed)]
            /\ "position" \in DOMAIN answer
            /\ answer.position = FirstInvalid(seed) - 1

Engine(sim) ==
    <<sim.generation, sim.save_history, sim.seed, sim.generation_iteration>>

OnClone == {"clone.simulate_generations", "clone.rollback_generations",
            "clone.reset"}
OnOriginal == {"simulate_generations", "rollback_generations", "reset"}

OnlySimulatedFromEmpty ==
    /\ status \in {"built", "answered"}
    /\ calls # << >>
    /\ calls[1].before.generation = {}
    /\ \A k \in 1..Len(calls) :
          calls[k].name \in {"simulate_generations", "is_still",
                             "is_periodic", "is_finished"}

\* C25: a grid with zero alive cells has zero alive cells after any number
\* of simulate_generations steps, on every surface type, and is_still() is
\* true after one step from it.
C25_EmptyStaysEmpty ==
    /\ OnlySimulatedFromEmpty => current.generation = {}
    /\ ( /\ OnlySimulatedFromEmpty
         /\ Len(calls) = 2
         /\ calls[1].argument = 1
         /\ IsSimulate(calls[1])
         /\ calls[2].name = "is_still" ) =>
            /\ status = "answered"
            /\ calls[2].answer.value

\* is_still() answered true after one step from the empty 2 x 2 grid.
C25_Witness ==
    /\ OnlySimulatedFromEmpty
    /\ status = "answered"
    /\ Len(calls) = 2
    /\ IsSimulate(calls[1]) /\ calls[1].argument = 1
    /\ calls[2].name = "is_still"
    /\ calls[2].answer.value
    /\ current.rows = 2 /\ current.columns = 2
    /\ current.generation = {}

(***************************************************************************)
(* The spaceship tests, on SpecSpaceship.                                  *)
(***************************************************************************)
\* The generation the tests expect of a seed on a surface: up and down
\* wrap on Ball and VerticalLoop, left and right on Ball and HorizontalLoop.
SpaceshipExpected(surface_type, seed) ==
    IF seed = FromDigits(UP_SPACESHIP_SEED)
    THEN IF surface_type \in {Ball, VerticalLoop}
         THEN UP_SPACESHIP_WRAPPED ELSE UP_SPACESHIP_CRASHED
    ELSE IF seed = FromDigits(DOWN_SPACESHIP_SEED)
    THEN IF surface_type \in {Ball, VerticalLoop}
         THEN DOWN_SPACESHIP_WRAPPED ELSE DOWN_SPACESHIP_CRASHED
    ELSE IF seed = FromDigits(LEFT_SPACESHIP_SEED)
    THEN IF surface_type \in {Ball, HorizontalLoop}
         THEN LEFT_SPACESHIP_WRAPPED ELSE LEFT_SPACESHIP_CRASHED
    ELSE IF surface_type \in {Ball, HorizontalLoop}
         THEN RIGHT_SPACESHIP_WRAPPED ELSE RIGHT_SPACESHIP_CRASHED

\* simulate_generations(NUMBER_OF_SPACESHIP_GENERATIONS) was called on the
\* simulation as built, and returned.
SpaceshipAdvanced ==
    /\ Built
    /\ Len(calls) = 1
    /\ IsSimulate(calls[1])
    /\ calls[1].argument = NUMBER_OF_SPACESHIP_GENERATIONS
    /\ current.rows = SPACESHIP_SIMULATION_SIZE
    /\ current.columns = SPACESHIP_SIMULATION_SIZE

\* C26: on the 9 x 9 grid each of the four spaceship seeds advanced 15
\* generations has the generation string the tests expect: crashed on
\* Rectangle, wrapped on Ball, wrapped for up and down and crashed for left
\* and right on VerticalLoop, and the reverse on HorizontalLoop.
C26_Spaceships ==
    SpaceshipAdvanced =>
        generation_string(current, overflow_checks)
           = [kind |-> "Ok",
              string |-> FromDigits(SpaceshipExpected(current.surface_type,
                                                      current.seed))]

\* The up spaceship was advanced 15 generations on VerticalLoop and is the
\* wrapped pattern, which differs from the crashed one.
C26_Witness ==
    /\ SpaceshipAdvanced
    /\ current.surface_type = VerticalLoop
    /\ current.seed = FromDigits(UP_SPACESHIP_SEED)
    /\ generation_string(current, overflow_checks).string
          = FromDigits(UP_SPACESHIP_WRAPPED)
    /\ FromDigits(UP_SPACESHIP_WRAPPED) # FromDigits(UP_SPACESHIP_CRASHED)

(***************************************************************************)
(* Determinism, on Spec.                                                   *)
(***************************************************************************)
\* The generation `steps` passes after the one decoded from `seed`, on the
\* grid of `rows` x `columns` cells of surface `surface_type`.
RECURSIVE Advanced(_, _, _, _, _)
Advanced(seed, rows, columns, surface_type, steps) ==
    IF steps = 0
    THEN generation_from_string(seed, columns).generation
    ELSE next_generation(
             [generation |-> Advanced(seed, rows, columns, surface_type,
                                      steps - 1),
              rows |-> rows,
              columns |-> columns,
              surface_type |-> surface_type])

\* Every call so far was simulate_generations, and each returned.
OnlySimulated ==
    /\ Built
    /\ calls # << >>
    /\ \A k \in 1..Len(calls) : IsSimulate(calls[k])

\* C27: the generation of a simulation that was only advanced is fixed by
\* its seed, rows, columns, surface type and the total number of steps:
\* neither the split of the steps into simulate_generations calls nor
\* maximum_saves, the history or the build profile has a part in it.
C27_Deterministic ==
    OnlySimulated =>
        current.generation
           = Advanced(current.seed, current.rows, current.columns,
                      current.surface_type, NetSteps(Len(calls)))

\* Steps made in two calls, the last of which still changes the generation.
C27_Witness ==
    /\ OnlySimulated
    /\ Len(calls) = 2
    /\ calls[1].argument >= 1
    /\ calls[2].argument >= 1
    /\ current.generation
          # Advanced(current.seed, current.rows, current.columns,
                     current.surface_type, NetSteps(Len(calls)) - 1)
    /\ current.generation # calls[1].before.generation

(***************************************************************************)
(* simulate_continuous_generations, on SpecContinuous.                     *)
(***************************************************************************)
\* The loop of simulate_continuous_generations(cooldown, true) is running,
\* on a simulation that keeps at least one generation.
RunningUntilFinished ==
    /\ status = "running"
    /\ Last(calls).argument
    /\ current.maximum_saves >= 1

\* C28: simulate_continuous_generations(cooldown, true) eventually returns
\* for every seed (on a finite grid every evolution becomes still or
\* periodic), and when it returns is_finished() is true.
C28_ContinuousReturns ==
    RunningUntilFinished
        ~> (status = "built" /\ is_finished(current).value)

\* When simulate_continuous_generations(cooldown, true) has returned,
\* is_finished() is true.
ContinuousReturnedFinished ==
    ( /\ Built
      /\ calls # << >>
      /\ Last(calls).name = "simulate_continuous_generations" )
    => is_finished(current).value

(***************************************************************************)
(* build without a display, on SpecBuild.                                  *)
(***************************************************************************)
\* build was called with display(false), a history of at least one entry,
\* and rows, columns and a seed that agree: positive dimensions and
\* rows * columns alive and dead characters.
BuiltWithoutDisplay ==
    /\ JustBuilt
    /\ ~configured.display
    /\ configured.maximum_saves >= 1
    /\ Supplied(configured.rows)
    /\ Supplied(configured.columns)
    /\ Supplied(configured.seed)
    /\ ~ZeroSized(configured)
    /\ ~HasInvalidCharacter(Unwrap(configured.seed))
    /\ Len(Unwrap(configured.seed))
          = Unwrap(configured.rows) * Unwrap(configured.columns)

\* C29: build with display disabled and consistent rows, columns and seed
\* returns Ok with the generation decoded from the seed,
\* generation_iteration 0 and an empty history, and touches no window data.
C29_BuildWithoutDisplay ==
    BuiltWithoutDisplay =>
        /\ status = "built"
        /\ panic = NoPanic
        /\ current.generation
              = generation_from_string(Unwrap(configured.seed),
                                       Unwrap(configured.columns)).generation
        /\ current.generation_iteration = 0
        /\ current.save_history = << >>
        /\ current.window_data = None

(***************************************************************************)
(* The fields fixed at construction, on SpecFrame.                         *)
(***************************************************************************)
\* The simulation as call k left it.
After(k) == IF k < Len(calls) THEN calls[k + 1].before ELSE current

\* C30: rows, columns, surface_type and maximum_saves are as build set them
\* after every sequence of simulate_generations, rollback_generations,
\* reset, reset_to and reset_to_rand, and simulate_generations and
\* rollback_generations leave seed unchanged too.
C30_FixedAtConstruction ==
    (status \in {"built", "panicked"}) =>
        \A k \in 1..Len(calls) :
            LET before == calls[k].before
                after == After(k)
            IN  /\ after.rows = before.rows
                /\ after.columns = before.columns
                /\ after.surface_type = before.surface_type
                /\ after.maximum_saves = before.maximum_saves
                /\ (IsSimulate(calls[k]) \/ IsRollback(calls[k]))
                      => after.seed = before.seed

\* reset_to returned with a seed of another length than rows * columns, and
\* a simulate_generations after it changed the generation.
C30_Witness ==
    /\ Built
    /\ Len(calls) = 2
    /\ calls[1].name = "reset_to"
    /\ Len(calls[1].argument) # current.rows * current.columns
    /\ current.seed = calls[1].argument
    /\ IsSimulate(calls[2])
    /\ current.generation # calls[2].before.generation

(***************************************************************************)
(* The order of the history, on Spec.                                      *)
(***************************************************************************)
\* simulate_generations(n) with n >= 1 was the last call and it returned:
\* it called save_generation once, on the simulation before the call.
SavedOnce ==
    /\ LastCallReturned("simulate_generations")
    /\ Last(calls).argument >= 1

\* C31: save_generation is a bounded FIFO push: on a history that holds
\* maximum_saves entries the oldest entry is evicted and the current
\* generation appended, otherwise the generation is appended; the entries
\* that stay keep their order, oldest first.
C31_BoundedFifo ==
    SavedOnce =>
        LET before == Last(calls).before
            kept == IF Len(before.save_history) = before.maximum_saves
                    THEN Tail(before.save_history)
                    ELSE before.save_history
        IN  /\ Len(current.save_history) = Len(kept) + 1
            /\ \A k \in 1..Len(kept) : current.save_history[k] = kept[k]
            /\ Last(current.save_history) = before.generation

\* A full history of two different generations lost its oldest entry to a
\* third generation.
C31_Witness ==
    /\ SavedOnce
    /\ current.maximum_saves = 2
    /\ Len(Last(calls).before.save_history) = 2
    /\ Last(calls).before.save_history[1] # Last(calls).before.save_history[2]
    /\ Last(calls).before.generation # Last(calls).before.save_history[2]
    /\ current.save_history[1] = Last(calls).before.save_history[2]

(***************************************************************************)
(* A cell and its own neighbourhood, on Spec.                              *)
(***************************************************************************)
\* An axis of length 1 wraps: the row above and below a cell, or the column
\* left and right of it, is the cell's own.
WrapsOntoItself(sim) ==
    \/ sim.rows = 1 /\ WrapsRows(sim.surface_type)
    \/ sim.columns = 1 /\ WrapsColumns(sim.surface_type)

\* The alive Moore neighbours of a cell, the positions that wrap onto the
\* cell itself left out.
OtherAliveNeighbors(sim, cell) ==
    Cardinality(
        {offset \in MooreOffsets :
            LET row == cell.row + offset[1]
                column == cell.column + offset[2]
            IN  /\ MooreTargetAlive(sim, row, column)
                /\ <<row % sim.rows, column % sim.columns>>
                      # <<cell.row, cell.column>>})

\* C32: a cell is never counted as its own neighbour: the single cell of a
\* 1 x 1 grid has 0 alive neighbours, on Rectangle and on Ball as on every
\* surface, and on a grid with a wrapping axis of length 1 the count of a
\* cell leaves the cell itself out.
C32_NotItsOwnNeighbour ==
    Built =>
        \A cell \in GridCells(current) :
            /\ (current.rows = 1 /\ current.columns = 1)
                  => get_alive_neighbors(current, cell) = 0
            /\ WrapsOntoItself(current)
                  => get_alive_neighbors(current, cell)
                        = OtherAliveNeighbors(current, cell)

(***************************************************************************)
(* Calls of 0 iterations, on Spec.                                         *)
(***************************************************************************)
\* The last call was simulate_generations(0) or rollback_generations(0).
ZeroIterations ==
    /\ status \in {"built", "panicked"}
    /\ calls # << >>
    /\ IsSimulate(Last(calls)) \/ IsRollback(Last(calls))
    /\ Last(calls).argument = 0

\* C33: simulate_generations(0) and rollback_generations(0) return and
\* leave generation, generation_iteration and the history as they were: no
\* history entry is pushed or popped.
C33_ZeroIsNoOp ==
    ZeroIterations =>
        /\ status = "built"
        /\ current.generation = Last(calls).before.generation
        /\ current.generation_iteration
              = Last(calls).before.generation_iteration
        /\ current.save_history = Last(calls).before.save_history

\* simulate_generations(0) on a simulation whose generation is not the
\* newest entry of its history, after a rollback_generations(0) on a
\* history that had an entry to pop.
C33_Witness ==
    /\ ZeroIterations
    /\ Len(calls) = 3
    /\ IsSimulate(calls[3])
    /\ IsRollback(calls[2]) /\ calls[2].argument = 0
    /\ current.save_history # << >>
    /\ Last(current.save_history) # current.generation

(***************************************************************************)
(* The 16-bit products, on SpecWidth.                                      *)
(***************************************************************************)
\* C34: 16-bit arithmetic never wraps silently: every simulation build
\* returns has rows * columns below 2^16 and a seed of rows * columns
\* characters, area() and the length of generation_string() are
\* rows * columns, and dimensions whose product is past 2^16 - 1 are
\* rejected (an error or a panic) and not reduced modulo 2^16.
C34_NoSilentWrap ==
    /\ Built =>
          /\ current.rows * current.columns < U16
          /\ Len(current.seed) = current.rows * current.columns
    /\ LastQuery("area") =>
          /\ status = "answered"
          /\ Last(calls).answer.value = current.rows * current.columns
    /\ LastQuery("generation_string") =>
          /\ status = "answered"
          /\ Len(Last(calls).answer.string) = current.rows * current.columns
    /\ ( /\ JustBuilt
         /\ Unwrap(configured.rows) * Unwrap(configured.columns) >= U16 )
          => status \in {"error", "panicked"}

\* The same for the simulations whose area is below 2^16.
NoWrapBelowWidth ==
    ( /\ status \in {"built", "answered"}
      /\ current.rows * current.columns < U16 ) =>
        /\ Len(current.seed) = current.rows * current.columns
        /\ LastQuery("area") =>
              Last(calls).answer.value = current.rows * current.columns
        /\ LastQuery("generation_string") =>
              Len(Last(calls).answer.string)
                 = current.rows * current.columns

(***************************************************************************)
(* The generation and its iteration number, on Spec.                       *)
(***************************************************************************)
\* Only simulate_generations and rollback_generations were called on the
\* simulation as built, and each call returned.
NeverReset ==
    /\ Built
    /\ \A k \in 1..Len(calls) : IsSimulate(calls[k]) \/ IsRollback(calls[k])

\* C35: after any sequence of simulate_generations and rollback_generations
\* calls on a freshly built simulation, the generation is the seed generation
\* advanced by exactly generation_iteration steps, so the header "SEED" is
\* shown only on the generation decoded from the seed.
C35_IterationCountsSteps ==
    NeverReset =>
        /\ current.generation_iteration >= 0
        /\ current.generation
              = Advanced(current.seed, current.rows, current.columns,
                         current.surface_type, current.generation_iteration)
        /\ display_header(current) = "SEED"
              => current.generation
                    = generation_from_string(current.seed,
                                             current.columns).generation

\* The same for the simulations that were only advanced.
IterationCountsStepsForward ==
    OnlySimulated =>
        /\ current.generation
              = Advanced(current.seed, current.rows, current.columns,
                         current.surface_type, current.generation_iteration)
        /\ display_header(current) = "SEED"
              => current.generation
                    = generation_from_string(current.seed,
                                             current.columns).generation

(***************************************************************************)
(* is_periodic on every period, on SpecQuery.                              *)
(***************************************************************************)
\* C36: is_periodic(period) answers true or false and indexes the history
\* within its bounds for every period >= 0 and every history length,
\* period 0 and the empty history included.
C36_PeriodicNeverPanics ==
    LastQuery("is_periodic") =>
        /\ status = "answered"
        /\ panic = NoPanic
        /\ Last(calls).answer.value \in BOOLEAN

\* The same for the periods from 1.
PeriodicAnswersFromOne ==
    (LastQuery("is_periodic") /\ Last(calls).argument >= 1) =>
        /\ status = "answered"
        /\ panic = NoPanic
        /\ Last(calls).answer.value \in BOOLEAN

(***************************************************************************)
(* Every maximum_saves, on Spec.                                           *)
(***************************************************************************)
\* C37: for every maximum_saves the builder accepts, 0 included,
\* simulate_generations returns and leaves at most maximum_saves history
\* entries: save_generation removes no entry from an empty history.
C37_EveryMaximumSaves ==
    LastCall("simulate_generations") =>
        /\ status = "built"
        /\ panic # RemoveOutOfBounds
        /\ Len(current.save_history) <= current.maximum_saves

\* The same for a maximum_saves of 1 or more.
PositiveMaximumSaves ==
    (LastCall("simulate_generations") /\ current.maximum_saves >= 1) =>
        /\ status = "built"
        /\ panic # RemoveOutOfBounds
        /\ Len(current.save_history) <= current.maximum_saves

(***************************************************************************)
(* The history after a reset, on SpecReset.                                *)
(***************************************************************************)
IsResetCall(call) == call.name \in {"reset", "reset_to", "reset_to_rand"}

\* C38: after reset, reset_to or reset_to_rand the history shows only the
\* generations produced since: none is left for rollback_generations to
\* restore when the reset returns, and is_finished() asked then is false,
\* the new run having repeated none of its generations.
C38_HistoryStartsAtReset ==
    /\ (Built /\ calls # << >> /\ IsResetCall(Last(calls)))
          => current.save_history = << >>
    /\ ( /\ LastQuery("is_finished")
         /\ Len(calls) >= 2
         /\ IsResetCall(Last(Front(calls))) )
          => /\ status = "answered"
             /\ ~Last(calls).answer.value

\* The same for the resets of a simulation that was never advanced.
ResetOfFreshSimulation ==
    /\ (Built /\ Len(calls) = 1 /\ IsResetCall(Last(calls)))
          => current.save_history = << >>
    /\ ( /\ LastQuery("is_finished")
         /\ Len(calls) = 2
         /\ IsResetCall(Last(Front(calls))) )
          => /\ status = "answered"
             /\ ~Last(calls).answer.value

====
